---- MODULE Spec2Model ----
(***************************************************************************)
(* Model of hardware_info.py: the LinuxHardwareDetective providers, the    *)
(* collect_all_info driver, the report generator and main().               *)
(*                                                                         *)
(* Representation of Python values:                                        *)
(*   str        a sequence of words (the text split at blanks); '' is <<>>  *)
(*              In sources parsed with split(':', 1) the colon is a word of *)
(*              its own; in sources parsed with split() a word is a         *)
(*              whitespace-delimited token.                                 *)
(*   text       a sequence of lines, each a str                             *)
(*   None       the record None; a non-None optional value v is Some(v)     *)
(*   dict       a function whose DOMAIN is the set of keys                  *)
(*   list[str]  a sequence of words                                         *)
(***************************************************************************)
EXTENDS Integers, Sequences, FiniteSets, TLC

VARIABLES
    pc,             \* the statement of main / collect_all_info to run next
    hardware_info,  \* self.hardware_info
    calls,          \* how often each provider has been invoked
    src,            \* what each invoked provider found in its source
    report,         \* main's local variable report
    artifacts,      \* per artifact: the number of writes begun and how the last ended
    exc,            \* the statement whose exception ended the run ("" if none)
    exit            \* the exit status of the process (-1 while it runs)

vars == <<pc, hardware_info, calls, src, report, artifacts, exc, exit>>

(***************************************************************************)
(* Bounds of the generated inputs.                                         *)
(***************************************************************************)
MaxLines == 2

MaxBlocks == 2

MaxEntries == 1

MaxCpus == 2

(***************************************************************************)
(* Python values.                                                          *)
(***************************************************************************)
None == [some |-> FALSE, val |-> <<>>]

Some(v) == [some |-> TRUE, val |-> v]

\* Python truthiness of an optional str / text: None and '' are falsy.
Truthy(o) == o.some /\ o.val # <<>>

EmptyDict == [k \in {} |-> <<>>]

\* d[k] = v
Put(d, k, v) == [x \in DOMAIN d \cup {k} |-> IF x = k THEN v ELSE d[x]]

\* d.get(k, default)
Get(d, k, default) == IF k \in DOMAIN d THEN d[k] ELSE default

\* seq[i] with Python's zero-based index (the caller checks the range)
Idx(seq, i) == seq[i + 1]

\* The sequences over S of length at most n.
SeqsUpTo(S, n) == UNION {[1..m -> S] : m \in 0..n}

(***************************************************************************)
(* Outcome of a function call: a returned value or a propagating exception.*)
(***************************************************************************)
Return(v) == [raised |-> FALSE, exc |-> "", value |-> v]

Raise(e) == [raised |-> TRUE, exc |-> e, value |-> EmptyDict]

\* State of a try body when it ends: the dict built so far and the
\* exception that ended it ("" when it ran to completion).
Body(d, e) == [dict |-> d, exc |-> e]

\* A try body without its handler: the exception leaves the provider.
ExceptPropagates(b) == IF b.exc # "" THEN Raise(b.exc) ELSE Return(b.dict)

\* try: ... except Exception as e: info['error'] = str(e); return info
Except(b) ==
    IF b.exc # "" THEN Return(Put(b.dict, <<"error">>, <<b.exc>>))
    ELSE Return(b.dict)

(***************************************************************************)
(* Text helpers.                                                           *)
(***************************************************************************)
\* str.strip() of a text: leading and trailing blank lines go.
RECURSIVE DropBlankHead(_)
DropBlankHead(t) ==
    IF t = <<>> THEN <<>>
    ELSE IF Head(t) = <<>> THEN DropBlankHead(Tail(t)) ELSE t

RECURSIVE DropBlankTail(_)
DropBlankTail(t) ==
    IF t = <<>> THEN <<>>
    ELSE IF t[Len(t)] = <<>> THEN DropBlankTail(SubSeq(t, 1, Len(t) - 1)) ELSE t

Strip(t) == DropBlankTail(DropBlankHead(t))

\* ':' in line
HasColon(line) == \E i \in 1..Len(line) : line[i] = ":"

FirstColon(line) == CHOOSE i \in 1..Len(line) :
                        line[i] = ":" /\ \A j \in 1..(i - 1) : line[j] # ":"

\* key, value = line.split(':', 1); key.strip(), value.strip()
ColonKey(line) == SubSeq(line, 1, FirstColon(line) - 1)

ColonValue(line) == SubSeq(line, FirstColon(line) + 1, Len(line))

\* for line in lines: if ':' in line: d[key.strip()] = value.strip()
RECURSIVE ParseColonLines(_, _)
ParseColonLines(lines, d) ==
    IF lines = <<>> THEN d
    ELSE LET l == Head(lines) IN
         ParseColonLines(Tail(lines),
                         IF HasColon(l) THEN Put(d, ColonKey(l), ColonValue(l))
                         ELSE d)

(***************************************************************************)
(* run_command and read_file.                                              *)
(*   A command outcome is [kind, stdout], kind one of "ok" (exit status 0),*)
(*   "nonzero", "timeout" (subprocess.TimeoutExpired), "oserror".           *)
(*   A file outcome is [ok, err, content].                                 *)
(***************************************************************************)
Cmd(kind, stdout) == [kind |-> kind, stdout |-> stdout]

CmdFailed(c) == c.kind # "ok"

File(content) == [ok |-> TRUE, err |-> "", content |-> content]

NoFile(err) == [ok |-> FALSE, err |-> err, content |-> <<>>]

run_command(c) == IF c.kind = "ok" THEN Some(Strip(c.stdout)) ELSE None

read_file(f) == IF f.ok THEN Some(f.content) ELSE None

(***************************************************************************)
(* get_cpu_info_proc: /proc/cpuinfo.  The content is the sequence of       *)
(* blocks content.split('\n\n') yields (never empty), each a text.         *)
(***************************************************************************)
NonBlank(block) == \E i \in 1..Len(block) : block[i] # <<>>

Unknown == <<"Unknown">>

\* cpu_info.update({'model_name': fields.get('model name', 'Unknown'), ...})
CpuProcFields(fields) ==
    (<<"model_name">> :> Get(fields, <<"model", "name">>, Unknown)) @@
    (<<"vendor_id">> :> Get(fields, <<"vendor_id">>, Unknown)) @@
    (<<"cpu_family">> :> Get(fields, <<"cpu", "family">>, Unknown)) @@
    (<<"model">> :> Get(fields, <<"model">>, Unknown)) @@
    (<<"stepping">> :> Get(fields, <<"stepping">>, Unknown)) @@
    (<<"microcode">> :> Get(fields, <<"microcode">>, Unknown)) @@
    (<<"cpu_mhz">> :> Get(fields, <<"cpu", "MHz">>, Unknown)) @@
    (<<"cache_size">> :> Get(fields, <<"cache", "size">>, Unknown)) @@
    (<<"physical_cores">> :> Get(fields, <<"cpu", "cores">>, Unknown)) @@
    (<<"siblings">> :> Get(fields, <<"siblings">>, Unknown)) @@
    (<<"flags">> :> Get(fields, <<"flags">>, <<>>))

get_cpu_info_proc(f) ==
    Except(IF ~f.ok THEN Body(EmptyDict, f.err)
           ELSE LET processors == f.content
                    count == Cardinality({i \in 1..Len(processors) :
                                             NonBlank(processors[i])})
                    fields == ParseColonLines(processors[1], EmptyDict)
                IN Body((<<"processors">> :> count) @@ CpuProcFields(fields), ""))

(***************************************************************************)
(* get_cpu_info_lscpu: the lscpu command.                                  *)
(***************************************************************************)
get_cpu_info_lscpu(c) ==
    LET output == run_command(c) IN
    Except(Body(IF Truthy(output) THEN ParseColonLines(output.val, EmptyDict)
                ELSE EmptyDict, ""))

(***************************************************************************)
(* get_cpu_info_sysfs: /sys/devices/system/cpu.  The input is              *)
(*   cpus  the 'online' file of each cpu[0-9]* directory, in glob order    *)
(*   freq  the entries of cpu0/cpufreq, each [name, is_file, file]         *)
(*   topo  [exists, iter_err, entries] for the first cpu's topology dir    *)
(***************************************************************************)
\* for e in entries: if e.is_file(): c = read_file(e); if c: d[e.name] = c
RECURSIVE ReadEntries(_, _)
ReadEntries(entries, d) ==
    IF entries = <<>> THEN d
    ELSE LET e == Head(entries)
             content == read_file(e.file)
         IN ReadEntries(Tail(entries),
                        IF e.is_file /\ Truthy(content)
                        THEN Put(d, e.name, content.val) ELSE d)

get_cpu_info_sysfs(s) ==
    LET online == Cardinality({i \in 1..Len(s.cpus) :
                                  read_file(s.cpus[i]) # Some(<<"0">>)})
        d1 == (<<"online_cpus">> :> online) @@ (<<"total_cpus">> :> Len(s.cpus))
        d2 == IF s.freq # <<>>
              THEN Put(d1, <<"frequency_info">>, ReadEntries(s.freq, EmptyDict))
              ELSE d1
    IN Except(IF s.cpus # <<>> /\ s.topo.exists /\ s.topo.iter_err # ""
              THEN Body(d2, s.topo.iter_err)
              ELSE Body(Put(d2, <<"topology">>,
                            IF s.cpus # <<>> /\ s.topo.exists
                            THEN ReadEntries(s.topo.entries, EmptyDict)
                            ELSE EmptyDict), ""))

(***************************************************************************)
(* get_cpu_info_proc_stat: /proc/stat, a text of split() lines.            *)
(***************************************************************************)
\* line.startswith('cpu ')
StartsWithCpu(line) == Len(line) >= 2 /\ line[1] = "cpu"

\* cpu_stats = {'user': parts[1], ..., 'steal': parts[8] if len(parts) > 8
\* else '0', 'guest': parts[9] if len(parts) > 9 else '0'}
CpuStats(parts) ==
    (<<"user">> :> <<Idx(parts, 1)>>) @@
    (<<"nice">> :> <<Idx(parts, 2)>>) @@
    (<<"system">> :> <<Idx(parts, 3)>>) @@
    (<<"idle">> :> <<Idx(parts, 4)>>) @@
    (<<"iowait">> :> <<Idx(parts, 5)>>) @@
    (<<"irq">> :> <<Idx(parts, 6)>>) @@
    (<<"softirq">> :> <<Idx(parts, 7)>>) @@
    (<<"steal">> :> IF Len(parts) > 8 THEN <<Idx(parts, 8)>> ELSE <<"0">>) @@
    (<<"guest">> :> IF Len(parts) > 9 THEN <<Idx(parts, 9)>> ELSE <<"0">>)

RECURSIVE ProcStatLines(_)
ProcStatLines(lines) ==
    IF lines = <<>> THEN Body(EmptyDict, "")
    ELSE LET parts == Head(lines) IN
         IF StartsWithCpu(parts)
         THEN IF Len(parts) < 8 THEN Body(EmptyDict, "IndexError")
              ELSE Body(CpuStats(parts), "")
         ELSE ProcStatLines(Tail(lines))

get_cpu_info_proc_stat(f) ==
    Except(IF ~f.ok THEN Body(EmptyDict, f.err) ELSE ProcStatLines(f.content))

(***************************************************************************)
(* get_ram_info_proc: /proc/meminfo, a text of 'key: value' lines.         *)
(***************************************************************************)
get_ram_info_proc(f) ==
    Except(IF ~f.ok THEN Body(EmptyDict, f.err)
           ELSE Body(ParseColonLines(f.content, EmptyDict), ""))

(***************************************************************************)
(* get_ram_info_free: 'free -h' (input h) and 'free -b' (input b).         *)
(***************************************************************************)
FreeDetailed(memory_line) ==
    (<<"total_bytes">> :> Idx(memory_line, 1)) @@
    (<<"used_bytes">> :> Idx(memory_line, 2)) @@
    (<<"free_bytes">> :> Idx(memory_line, 3)) @@
    (<<"shared_bytes">> :> Idx(memory_line, 4)) @@
    (<<"buff_cache_bytes">> :> Idx(memory_line, 5)) @@
    (<<"available_bytes">> :> Idx(memory_line, 6))

get_ram_info_free(s) ==
    LET output == run_command(s.h)
        d1 == IF Truthy(output)
              THEN Put(EmptyDict, <<"human_readable">>, output.val)
              ELSE EmptyDict
        output_bytes == run_command(s.b)
        lines == output_bytes.val
    IN Except(IF Truthy(output_bytes) /\ Len(lines) >= 2
                 /\ Len(Idx(lines, 1)) >= 6
              THEN IF Len(Idx(lines, 1)) < 7 THEN Body(d1, "IndexError")
                   ELSE Body(Put(d1, <<"detailed">>,
                                 FreeDetailed(Idx(lines, 1))), "")
              ELSE Body(d1, ""))

(***************************************************************************)
(* get_ram_info_dmidecode: 'sudo dmidecode -t memory || dmidecode ...'.    *)
(* 'Memory Device' stands on a line of its own in the output.              *)
(***************************************************************************)
MemoryDevice == <<"Memory", "Device">>

\* output.split('Memory Device')
RECURSIVE SplitDevices(_, _, _)
SplitDevices(lines, current, done) ==
    IF lines = <<>> THEN Append(done, current)
    ELSE IF Head(lines) = MemoryDevice
         THEN SplitDevices(Tail(lines), <<>>, Append(done, current))
         ELSE SplitDevices(Tail(lines), Append(current, Head(lines)), done)

get_ram_info_dmidecode(c) ==
    LET output == run_command(c)
        devices == SplitDevices(output.val, <<>>, <<>>)
        d1 == (<<"raw_dmidecode">> :> output.val) @@
              (<<"memory_modules">> :> (Len(devices) - 1))
    IN Except(Body(IF ~Truthy(output) THEN EmptyDict
                   ELSE IF Len(devices) > 1
                        THEN Put(d1, <<"sample_module">>,
                                 ParseColonLines(Idx(devices, 1), EmptyDict))
                        ELSE d1, ""))

(***************************************************************************)
(* get_ram_info_sysfs: the 'state' file of each memory block.              *)
(***************************************************************************)
get_ram_info_sysfs(blocks) ==
    Except(Body((<<"memory_blocks">> :> Len(blocks)) @@
                (<<"online_blocks">> :>
                    Cardinality({i \in 1..Len(blocks) :
                                    read_file(blocks[i]) = Some(<<"online">>)})),
                ""))

(***************************************************************************)
(* get_ram_info_vmstat: /proc/vmstat, a text of split() lines.             *)
(***************************************************************************)
RECURSIVE VmstatLines(_, _)
VmstatLines(lines, d) ==
    IF lines = <<>> THEN Body(d, "")
    ELSE LET line == Head(lines) IN
         IF line = <<>> THEN VmstatLines(Tail(lines), d)
         ELSE IF Len(line) # 2 THEN Body(d, "ValueError")
              ELSE VmstatLines(Tail(lines), Put(d, <<line[1]>>, <<line[2]>>))

get_ram_info_vmstat(f) ==
    Except(IF ~f.ok THEN Body(EmptyDict, f.err)
           ELSE VmstatLines(f.content, EmptyDict))

(***************************************************************************)
(* get_system_info: five read_file calls.                                  *)
(***************************************************************************)
get_system_info(s) ==
    LET d1 == (<<"kernel">> :> read_file(s.version)) @@
              (<<"hostname">> :> read_file(s.hostname)) @@
              (<<"os_release">> :> read_file(s.os_release)) @@
              (<<"uptime">> :> read_file(s.uptime))
        model == read_file(s.model)
    IN Except(Body(IF Truthy(model) THEN Put(d1, <<"device_model">>, model.val)
                   ELSE d1, ""))

(***************************************************************************)
(* get_additional_info: vulnerabilities directory and scaling driver, each *)
(* under try: ... except: pass.                                            *)
(***************************************************************************)
get_additional_info(s) ==
    LET d1 == IF s.vuln.exists /\ s.vuln.iter_err = ""
              THEN Put(EmptyDict, <<"vulnerabilities">>,
                       ReadEntries(s.vuln.entries, EmptyDict))
              ELSE EmptyDict
        scaling_driver == read_file(s.scaling)
    IN Return(IF Truthy(scaling_driver)
              THEN Put(d1, <<"scaling_driver">>, scaling_driver.val) ELSE d1)

(***************************************************************************)
(* collect_all_info: the providers in call order, keyed by the             *)
(* hardware_info key each result is stored under.                          *)
(***************************************************************************)
ProviderSeq == <<"system", "cpu_proc", "cpu_lscpu", "cpu_sysfs", "cpu_stat",
                 "ram_proc", "ram_free", "ram_dmidecode", "ram_sysfs",
                 "vmstat", "additional">>

Providers == {ProviderSeq[i] : i \in 1..Len(ProviderSeq)}

Provider(p, input) ==
    CASE p = "system" -> get_system_info(input)
      [] p = "cpu_proc" -> get_cpu_info_proc(input)
      [] p = "cpu_lscpu" -> get_cpu_info_lscpu(input)
      [] p = "cpu_sysfs" -> get_cpu_info_sysfs(input)
      [] p = "cpu_stat" -> get_cpu_info_proc_stat(input)
      [] p = "ram_proc" -> get_ram_info_proc(input)
      [] p = "ram_free" -> get_ram_info_free(input)
      [] p = "ram_dmidecode" -> get_ram_info_dmidecode(input)
      [] p = "ram_sysfs" -> get_ram_info_sysfs(input)
      [] p = "vmstat" -> get_ram_info_vmstat(input)
      [] p = "additional" -> get_additional_info(input)

\* The statement that follows the call of p in collect_all_info; after the
\* last one collect_all_info returns to main, which generates the report.
AfterProvider(p) ==
    LET i == CHOOSE j \in 1..Len(ProviderSeq) : ProviderSeq[j] = p IN
    IF i < Len(ProviderSeq) THEN ProviderSeq[i + 1] ELSE "report"

(***************************************************************************)
(* generate_comprehensive_report.  A report line is [label, arg]: the      *)
(* literal part of the f-string and the value formatted into it.           *)
(***************************************************************************)
Line(label, arg) == [label |-> label, arg |-> arg]

Rule == Line(<<"----">>, <<>>)

\* int(word): the decimal words of the inputs and their values
IntOf == ("0" :> 0) @@ ("134217728" :> 134217728) @@
         ("536870912" :> 536870912) @@ ("1073741824" :> 1073741824) @@
         ("2000000000" :> 2000000000)

IsInt(w) == w \in DOMAIN IntOf

GiB == 1073741824

\* f"{n / (1024**3):.2f}": the hundredths of n / 2^30, rounded half to even
\* (the quotient is exact in a double for 0 <= n < 2^31)
Hundredths(n) ==
    LET k == n \div 1024
        b == n % 1024
        q == (k * 100) \div 1048576
        R == ((k * 100) % 1048576) * 1024 + b * 100
        h == q + (R \div GiB)
        rem == R % GiB
    IN IF 2 * rem > GiB \/ (2 * rem = GiB /\ h % 2 = 1) THEN h + 1 ELSE h

\* for key in keys: if key in d: report.append(f"{key}: {d[key]}")
RECURSIVE KeyLines(_, _)
KeyLines(keys, d) ==
    IF keys = <<>> THEN <<>>
    ELSE (IF Head(keys) \in DOMAIN d
          THEN <<Line(Head(keys), d[Head(keys)])>> ELSE <<>>)
         \o KeyLines(Tail(keys), d)

\* for k, v in info.items(): report.append(f"  {k}: {v}")
\* (the order of the items is the insertion order; the model fixes one)
RECURSIVE ItemLines(_, _)
ItemLines(keys, d) ==
    IF keys = {} THEN <<>>
    ELSE LET k == CHOOSE x \in keys : TRUE IN
         <<Line(k, d[k])>> \o ItemLines(keys \ {k}, d)

SystemSummary(h) ==
    <<Line(<<"SYSTEM", "SUMMARY">>, <<>>), Rule>> \o
    (IF "system" \in DOMAIN h
     THEN LET sys_info == h["system"] IN
          (IF <<"hostname">> \in DOMAIN sys_info /\ Truthy(sys_info[<<"hostname">>])
           THEN <<Line(<<"Hostname">>, sys_info[<<"hostname">>].val)>>
           ELSE <<>>) \o
          (IF <<"kernel">> \in DOMAIN sys_info /\ Truthy(sys_info[<<"kernel">>])
           THEN <<Line(<<"Kernel">>, <<Idx(sys_info[<<"kernel">>].val, 0)>>)>>
           ELSE <<>>)
     ELSE <<>>)

CpuSummary(h) ==
    <<Line(<<"CPU", "SUMMARY">>, <<>>), Rule>> \o
    (IF "cpu_proc" \in DOMAIN h
     THEN LET cpu_proc == h["cpu_proc"] IN
          (IF <<"model_name">> \in DOMAIN cpu_proc
           THEN <<Line(<<"Processor">>, cpu_proc[<<"model_name">>])>> ELSE <<>>) \o
          (IF <<"processors">> \in DOMAIN cpu_proc
           THEN <<Line(<<"Logical", "CPUs">>, cpu_proc[<<"processors">>])>>
           ELSE <<>>) \o
          (IF <<"physical_cores">> \in DOMAIN cpu_proc
           THEN <<Line(<<"Physical", "Cores">>, cpu_proc[<<"physical_cores">>])>>
           ELSE <<>>) \o
          (IF <<"cpu_mhz">> \in DOMAIN cpu_proc
           THEN <<Line(<<"Frequency">>, cpu_proc[<<"cpu_mhz">>] \o <<"MHz">>)>>
           ELSE <<>>)
     ELSE <<>>) \o
    (IF "cpu_lscpu" \in DOMAIN h
     THEN LET lscpu == h["cpu_lscpu"] IN
          (IF <<"Architecture">> \in DOMAIN lscpu
           THEN <<Line(<<"Architecture">>, lscpu[<<"Architecture">>])>> ELSE <<>>) \o
          (IF <<"CPU(s)">> \in DOMAIN lscpu
           THEN <<Line(<<"Total", "CPUs">>, lscpu[<<"CPU(s)">>])>> ELSE <<>>) \o
          (IF <<"Thread(s)", "per", "core">> \in DOMAIN lscpu
           THEN <<Line(<<"Threads", "per", "Core">>,
                       lscpu[<<"Thread(s)", "per", "core">>])>> ELSE <<>>) \o
          (IF <<"CPU", "max", "MHz">> \in DOMAIN lscpu
           THEN <<Line(<<"Max", "Frequency">>,
                       lscpu[<<"CPU", "max", "MHz">>] \o <<"MHz">>)>> ELSE <<>>)
     ELSE <<>>)

\* The lines from /proc/meminfo
RamSummaryProc(h) ==
    IF "ram_proc" \in DOMAIN h
    THEN LET meminfo == h["ram_proc"] IN
         (IF <<"MemTotal">> \in DOMAIN meminfo
          THEN <<Line(<<"Total", "Memory">>, meminfo[<<"MemTotal">>])>> ELSE <<>>) \o
         (IF <<"MemAvailable">> \in DOMAIN meminfo
          THEN <<Line(<<"Available", "Memory">>, meminfo[<<"MemAvailable">>])>>
          ELSE <<>>) \o
         (IF <<"SwapTotal">> \in DOMAIN meminfo
             /\ meminfo[<<"SwapTotal">>] # <<"0", "kB">>
          THEN <<Line(<<"Swap", "Total">>, meminfo[<<"SwapTotal">>])>> ELSE <<>>)
    ELSE <<>>

HasFreeDetailed(h) ==
    "ram_free" \in DOMAIN h /\ <<"detailed">> \in DOMAIN h["ram_free"]

\* The lines from the free command (the caller checks that int() accepts
\* both words)
RamSummaryFree(h) ==
    IF HasFreeDetailed(h)
    THEN LET free_detailed == h["ram_free"][<<"detailed">>]
             total_gb == Hundredths(IntOf[free_detailed[<<"total_bytes">>]])
             available_gb == Hundredths(IntOf[free_detailed[<<"available_bytes">>]])
         IN <<Line(<<"Total", "Memory">>, <<total_gb, "GB">>),
              Line(<<"Available", "Memory">>, <<available_gb, "GB">>)>>
    ELSE <<>>

RamSummary(h) ==
    <<Line(<<"RAM", "SUMMARY">>, <<>>), Rule>> \o RamSummaryProc(h) \o
    RamSummaryFree(h)

\* ', '.join(value[:5]) + '...' if len(value) > 5 else ', '.join(value)
FlagsArg(value) ==
    IF Len(value) > 5 THEN SubSeq(value, 1, 5) \o <<"...">> ELSE value

CpuDetails(h) ==
    <<Line(<<"CPU", "DETAILS">>, <<>>), Rule>> \o
    (IF "cpu_proc" \in DOMAIN h
     THEN LET cpu_proc == h["cpu_proc"] IN
          KeyLines(<< <<"vendor_id">>, <<"cpu_family">>, <<"model">>,
                      <<"stepping">>, <<"microcode">>, <<"cache_size">>,
                      <<"siblings">> >>, cpu_proc) \o
          (IF <<"flags">> \in DOMAIN cpu_proc
           THEN <<Line(<<"flags">>, FlagsArg(cpu_proc[<<"flags">>]))>> ELSE <<>>) \o
          KeyLines(<< <<"error">> >>, cpu_proc)
     ELSE <<>>)

RamDetails(h) ==
    <<Line(<<"RAM", "DETAILS">>, <<>>), Rule>> \o
    (IF "ram_proc" \in DOMAIN h
     THEN KeyLines(<< <<"MemFree">>, <<"Buffers">>, <<"Cached">>, <<"Active">>,
                      <<"Inactive">>, <<"SwapCached">>, <<"SwapTotal">>,
                      <<"SwapFree">>, <<"Dirty">>, <<"Writeback">> >>,
                   h["ram_proc"])
     ELSE <<>>)

AdditionalInformation(h) ==
    <<Line(<<"ADDITIONAL", "INFORMATION">>, <<>>), Rule>> \o
    (IF "additional" \in DOMAIN h
     THEN LET additional == h["additional"] IN
          (IF <<"vulnerabilities">> \in DOMAIN additional
           THEN <<Line(<<"vulnerabilities">>, <<>>)>> \o
                ItemLines(DOMAIN additional[<<"vulnerabilities">>],
                          additional[<<"vulnerabilities">>])
           ELSE <<>>) \o
          (IF <<"scaling_driver">> \in DOMAIN additional
           THEN <<Line(<<"scaling_driver">>, <<>>),
                  Line(<<>>, additional[<<"scaling_driver">>])>>
           ELSE <<>>)
     ELSE <<>>)

generate_comprehensive_report(h) ==
    IF HasFreeDetailed(h)
       /\ (~IsInt(h["ram_free"][<<"detailed">>][<<"total_bytes">>])
           \/ ~IsInt(h["ram_free"][<<"detailed">>][<<"available_bytes">>]))
    THEN Raise("ValueError")
    ELSE Return(<<Line(<<"====">>, <<>>),
                  Line(<<"COMPREHENSIVE", "LINUX", "HARDWARE", "REPORT">>, <<>>),
                  Line(<<"====">>, <<>>)>> \o
                SystemSummary(h) \o CpuSummary(h) \o RamSummary(h) \o
                <<Line(<<"====">>, <<>>),
                  Line(<<"DETAILED", "INFORMATION">>, <<>>),
                  Line(<<"====">>, <<>>)>> \o
                CpuDetails(h) \o RamDetails(h) \o AdditionalInformation(h))

(***************************************************************************)
(* What a provider may find in its source.                                 *)
(***************************************************************************)
FileErrors == {"FileNotFoundError", "PermissionError"}

FailedCmds == {Cmd(k, <<>>) : k \in {"nonzero", "timeout", "oserror"}}

NoFiles == {NoFile(e) : e \in FileErrors}

\* A file that is missing, empty, or holds the given words
SmallFile(words) == {NoFile("FileNotFoundError"), File(<<>>), File(words)}

\* Directory entries [name, is_file, file]
Entries(names) ==
    {[name |-> n, is_file |-> b, file |-> f] :
        n \in names, b \in BOOLEAN, f \in SmallFile(<<"x">>)}

\* A directory: absent, unreadable, or listing some entries
Dirs(names) ==
    {[exists |-> FALSE, iter_err |-> "", entries |-> <<>>],
     [exists |-> TRUE, iter_err |-> "PermissionError", entries |-> <<>>]} \cup
    {[exists |-> TRUE, iter_err |-> "", entries |-> e] :
        e \in SeqsUpTo(Entries(names), MaxEntries)}

CpuinfoLines == {<<"model", "name", ":", "Xeon">>, <<"cpu", "MHz", ":", "2400">>,
                 <<"flags", ":", "fpu", "vme">>, <<>>}

LscpuLines == {<<"Architecture", ":", "x86_64">>, <<"CPU(s)", ":", "4">>,
               <<"junk">>, <<>>}

StatLines == {<<"cpu", "1", "2", "3", "4", "5", "6", "7", "8", "9", "10">>,
              <<"cpu", "1", "2", "3", "4", "5", "6", "7", "8">>,
              <<"cpu", "1", "2", "3", "4", "5", "6", "7">>,
              <<"cpu", "1", "2", "3", "4">>,
              <<"cpu0", "1", "2", "3", "4", "5", "6", "7">>,
              <<"intr", "5">>}

MeminfoLines == {<<"MemTotal", ":", "16384", "kB">>,
                 <<"MemAvailable", ":", "8192", "kB">>,
                 <<"SwapTotal", ":", "0", "kB">>,
                 <<"SwapTotal", ":", "2048", "kB">>,
                 <<"junk">>}

FreeHeader == <<"total", "used", "free", "shared", "buff/cache", "available">>

FreeLines == {FreeHeader,
              <<"Mem:", "1073741824", "536870912", "134217728", "0",
                "134217728", "536870912">>,
              <<"Mem:", "n/a", "536870912", "134217728", "0",
                "134217728", "536870912">>,
              <<"Mem:", "1073741824", "536870912", "134217728", "0",
                "134217728">>,
              <<"Swap:", "0", "0", "0">>,
              <<>>}

DmidecodeLines == {MemoryDevice, <<"Size", ":", "8", "GB">>, <<"junk">>, <<>>}

VmstatWords == {<<"nr_free_pages", "100">>, <<"pgfault", "7">>, <<"bad">>,
                <<"a", "b", "c">>, <<>>}

FetchInputs(p) ==
    CASE p = "system" ->
           {[version |-> v, hostname |-> n, os_release |-> o, uptime |-> u,
             model |-> m] :
               v \in SmallFile(<<"Linux", "version", "6.1">>),
               n \in SmallFile(<<"runner">>),
               o \in SmallFile(<<"NAME=Ubuntu">>),
               u \in SmallFile(<<"12.5", "40.1">>),
               m \in SmallFile(<<"Raspberry", "Pi">>)}
      [] p = "cpu_proc" ->
           NoFiles \cup
           {File(c) : c \in SeqsUpTo(SeqsUpTo(CpuinfoLines, MaxLines), MaxBlocks)
                               \ {<<>>}}
      [] p = "cpu_lscpu" ->
           FailedCmds \cup {Cmd("ok", t) : t \in SeqsUpTo(LscpuLines, MaxLines)}
      [] p = "cpu_sysfs" ->
           {[cpus |-> c, freq |-> f, topo |-> t] :
               c \in SeqsUpTo(SmallFile(<<"0">>) \cup {File(<<"1">>)}, MaxCpus),
               f \in SeqsUpTo(Entries({<<"scaling_governor">>}), MaxEntries),
               t \in Dirs({<<"core_id">>})}
      [] p = "cpu_stat" ->
           NoFiles \cup {File(t) : t \in SeqsUpTo(StatLines, MaxLines)}
      [] p = "ram_proc" ->
           NoFiles \cup {File(t) : t \in SeqsUpTo(MeminfoLines, MaxLines)}
      [] p = "ram_free" ->
           {[h |-> h, b |-> b] :
               h \in FailedCmds \cup {Cmd("ok", <<>>), Cmd("ok", <<FreeHeader>>)},
               b \in FailedCmds \cup
                     {Cmd("ok", t) : t \in SeqsUpTo(FreeLines, MaxLines)}}
      [] p = "ram_dmidecode" ->
           FailedCmds \cup {Cmd("ok", t) : t \in SeqsUpTo(DmidecodeLines, MaxLines)}
      [] p = "ram_sysfs" ->
           SeqsUpTo(SmallFile(<<"online">>) \cup {File(<<"offline">>)}, MaxCpus)
      [] p = "vmstat" ->
           NoFiles \cup {File(t) : t \in SeqsUpTo(VmstatWords, MaxLines)}
      [] p = "additional" ->
           {[vuln |-> v, scaling |-> s] :
               v \in Dirs({<<"meltdown">>}),
               s \in SmallFile(<<"intel_pstate">>)}

(***************************************************************************)
(* The hosts of a whole run: per provider a working source, a missing or   *)
(* failing one, and the malformed ones the report depends on.              *)
(***************************************************************************)
MemLine == <<"Mem:", "1073741824", "536870912", "134217728", "0",
             "134217728", "536870912">>

RunInputs(p) ==
    CASE p = "system" ->
           {[version |-> File(<<"Linux", "version", "6.1">>),
             hostname |-> File(<<"runner">>),
             os_release |-> File(<<"NAME=Ubuntu">>),
             uptime |-> File(<<"12.5", "40.1">>),
             model |-> NoFile("FileNotFoundError")],
            [version |-> NoFile("FileNotFoundError"),
             hostname |-> NoFile("FileNotFoundError"),
             os_release |-> NoFile("FileNotFoundError"),
             uptime |-> NoFile("FileNotFoundError"),
             model |-> NoFile("FileNotFoundError")],
            [version |-> File(<<>>),
             hostname |-> File(<<"runner">>),
             os_release |-> NoFile("FileNotFoundError"),
             uptime |-> File(<<"12.5", "40.1">>),
             model |-> File(<<"Raspberry", "Pi">>)]}
      [] p = "cpu_proc" ->
           {NoFile("FileNotFoundError"),
            File(<< <<<<"model", "name", ":", "Xeon">>,
                      <<"cpu", "MHz", ":", "2400">>>>, <<>> >>),
            File(<< <<<<"flags", ":", "fpu", "vme">>>> >>)}
      [] p = "cpu_lscpu" ->
           {Cmd("nonzero", <<>>), Cmd("timeout", <<>>),
            Cmd("ok", << <<"Architecture", ":", "x86_64">>,
                         <<"CPU(s)", ":", "4">> >>)}
      [] p = "cpu_sysfs" ->
           {[cpus |-> <<>>, freq |-> <<>>,
             topo |-> [exists |-> FALSE, iter_err |-> "", entries |-> <<>>]],
            [cpus |-> <<File(<<"1">>)>>, freq |-> <<>>,
             topo |-> [exists |-> TRUE, iter_err |-> "",
                       entries |-> <<[name |-> <<"core_id">>, is_file |-> TRUE,
                                      file |-> File(<<"x">>)]>>]]}
      [] p = "cpu_stat" ->
           {NoFile("FileNotFoundError"),
            File(<< <<"cpu", "1", "2", "3", "4", "5", "6", "7", "8", "9", "10">> >>),
            File(<< <<"cpu", "1", "2", "3", "4", "5", "6", "7">> >>),
            File(<< <<"cpu", "1", "2", "3", "4">> >>)}
      [] p = "ram_proc" ->
           {NoFile("FileNotFoundError"),
            File(<< <<"MemTotal", ":", "16384", "kB">>,
                    <<"MemAvailable", ":", "8192", "kB">> >>)}
      [] p = "ram_free" ->
           {[h |-> Cmd("nonzero", <<>>), b |-> Cmd("nonzero", <<>>)],
            [h |-> Cmd("timeout", <<>>), b |-> Cmd("ok", <<FreeHeader, MemLine>>)],
            [h |-> Cmd("ok", <<FreeHeader>>), b |-> Cmd("ok", <<FreeHeader, MemLine>>)],
            [h |-> Cmd("ok", <<FreeHeader>>),
             b |-> Cmd("ok", <<FreeHeader, SubSeq(MemLine, 1, 6)>>)],
            [h |-> Cmd("ok", <<FreeHeader>>),
             b |-> Cmd("ok", <<FreeHeader,
                               <<"Mem:", "n/a", "536870912", "134217728", "0",
                                 "134217728", "536870912">> >>)]}
      [] p = "ram_dmidecode" ->
           {Cmd("nonzero", <<>>), Cmd("timeout", <<>>),
            Cmd("ok", <<MemoryDevice, <<"Size", ":", "8", "GB">> >>)}
      [] p = "ram_sysfs" -> {<<>>, <<File(<<"online">>)>>}
      [] p = "vmstat" ->
           {NoFile("FileNotFoundError"),
            File(<< <<"nr_free_pages", "100">> >>),
            File(<< <<"nr_free_pages", "100">>, <<"bad">> >>)}
      [] p = "additional" ->
           {[vuln |-> [exists |-> FALSE, iter_err |-> "", entries |-> <<>>],
             scaling |-> NoFile("FileNotFoundError")],
            [vuln |-> [exists |-> TRUE, iter_err |-> "",
                       entries |-> <<[name |-> <<"meltdown">>, is_file |-> TRUE,
                                      file |-> File(<<"x">>)]>>],
             scaling |-> File(<<"intel_pstate">>)]}

(***************************************************************************)
(* main()                                                                  *)
(***************************************************************************)
Artifacts == {"hardware_detailed.json", "hardware_report.txt"}

WriteOutcomes == {"ok", "open_fails", "write_fails"}

Init ==
    /\ pc = ProviderSeq[1]
    /\ hardware_info = EmptyDict
    /\ calls = [p \in Providers |-> 0]
    /\ src = EmptyDict
    /\ report = None
    /\ artifacts = [a \in Artifacts |-> [writes |-> 0, status |-> "none"]]
    /\ exc = ""
    /\ exit = -1

\* An exception nothing catches: the traceback is printed, the exit status is 1.
Uncaught(where) ==
    /\ pc' = "crashed"
    /\ exc' = where
    /\ exit' = 1

\* The store that keeps only results without an error entry.
StoreUnlessError(h, key, value) ==
    IF <<"error">> \in DOMAIN value THEN h ELSE Put(h, key, value)

\* self.hardware_info[key] = <the provider's result>
Store(h, key, value) == Put(h, key, value)

\* collect_all_info, one provider: self.hardware_info[p] = self.get_...()
Collect(p, inputs) ==
    /\ pc = p
    /\ \E input \in inputs :
          LET r == Provider(p, input) IN
          /\ calls' = [calls EXCEPT ![p] = @ + 1]
          /\ src' = Put(src, p, input)
          /\ IF r.raised
             THEN /\ Uncaught(p)
                  /\ UNCHANGED hardware_info
             ELSE /\ hardware_info' = Store(hardware_info, p, r.value)
                  /\ pc' = AfterProvider(p)
                  /\ UNCHANGED <<exc, exit>>
    /\ UNCHANGED <<report, artifacts>>

CollectStep == \E p \in Providers : Collect(p, RunInputs(p))

\* main: report = detective.generate_comprehensive_report(); print(report)
GenerateReport ==
    /\ pc = "report"
    /\ LET r == generate_comprehensive_report(hardware_info) IN
       IF r.raised
       THEN /\ Uncaught("report")
            /\ UNCHANGED report
       ELSE /\ report' = Some(r.value)
            /\ pc' = "save_json"
            /\ UNCHANGED <<exc, exit>>
    /\ UNCHANGED <<hardware_info, calls, src, artifacts>>

\* with open(name, 'w') as f: <write>
Write(name, outcome, then) ==
    /\ artifacts' = [artifacts EXCEPT ![name] =
                        [writes |-> @.writes + 1,
                         status |-> CASE outcome = "ok" -> "written"
                                      [] outcome = "open_fails" -> "none"
                                      [] outcome = "write_fails" -> "partial"]]
    /\ IF outcome = "ok"
       THEN pc' = then /\ UNCHANGED <<exc, exit>>
       ELSE Uncaught(name)

\* The JSON artifact rewritten as soon as the CPU providers are through, and
\* again at the end.
SaveJsonPerCategory ==
    /\ pc \in {"save_json", "ram_proc"}
    /\ \E outcome \in WriteOutcomes :
          Write("hardware_detailed.json", outcome,
                IF pc = "save_json" THEN "save_report" ELSE pc)
    /\ UNCHANGED <<hardware_info, calls, src, report>>

\* save_to_files: json.dump(self.hardware_info, f, indent=2)
SaveJson ==
    /\ pc = "save_json"
    /\ \E outcome \in WriteOutcomes :
          Write("hardware_detailed.json", outcome, "save_report")
    /\ UNCHANGED <<hardware_info, calls, src, report>>

\* save_to_files: report = self.generate_comprehensive_report(); f.write(report)
SaveReport ==
    /\ pc = "save_report"
    /\ LET r == generate_comprehensive_report(hardware_info) IN
       IF r.raised
       THEN Uncaught("save_report") /\ UNCHANGED artifacts
       ELSE \E outcome \in WriteOutcomes :
               Write("hardware_report.txt", outcome, "github")
    /\ UNCHANGED <<hardware_info, calls, src, report>>

\* main: if 'GITHUB_OUTPUT' in os.environ: append hardware_status=completed
GithubOutput ==
    /\ pc = "github"
    /\ \E env \in {"unset", "ok", "open_fails"} :
          IF env = "open_fails"
          THEN Uncaught("github")
          ELSE pc' = "done" /\ exit' = 0 /\ UNCHANGED exc
    /\ UNCHANGED <<hardware_info, calls, src, report, artifacts>>

Next == CollectStep \/ GenerateReport \/ SaveJson \/ SaveReport \/ GithubOutput

Spec == Init /\ [][Next]_vars

(***************************************************************************)
(* One provider on its own, over every source of FetchInputs.              *)
(***************************************************************************)
InitFetch ==
    /\ pc = "fetch"
    /\ hardware_info = EmptyDict
    /\ calls = [p \in Providers |-> 0]
    /\ src = EmptyDict
    /\ report = None
    /\ artifacts = [a \in Artifacts |-> [writes |-> 0, status |-> "none"]]
    /\ exc = ""
    /\ exit = -1

Fetch ==
    /\ pc = "fetch"
    /\ \E p \in Providers : \E input \in FetchInputs(p) :
          LET r == Provider(p, input) IN
          /\ calls' = [calls EXCEPT ![p] = @ + 1]
          /\ src' = Put(src, p, input)
          /\ IF r.raised
             THEN /\ Uncaught(p)
                  /\ UNCHANGED hardware_info
             ELSE /\ hardware_info' = Store(hardware_info, p, r.value)
                  /\ pc' = "fetched"
                  /\ UNCHANGED <<exc, exit>>
    /\ UNCHANGED <<report, artifacts>>

NextFetch == Fetch

SpecFetch == InitFetch /\ [][NextFetch]_vars

(***************************************************************************)
(* Predicates on the run.                                                  *)
(***************************************************************************)
\* collect_all_info has returned to main
CollectReturned ==
    \/ pc \in {"report", "save_json", "save_report", "github", "done"}
    \/ pc = "crashed" /\ exc \notin Providers

Terminated == pc \in {"done", "crashed"}

HasError(d) == <<"error">> \in DOMAIN d

AnyFailed(files) == \E i \in 1..Len(files) : ~files[i].ok

\* Some file read or command invocation of the provider failed.
ReadOrCommandFailed(p, s) ==
    CASE p = "system" ->
           AnyFailed(<<s.version, s.hostname, s.os_release, s.uptime, s.model>>)
      [] p \in {"cpu_proc", "cpu_stat", "ram_proc", "vmstat"} -> ~s.ok
      [] p \in {"cpu_lscpu", "ram_dmidecode"} -> CmdFailed(s)
      [] p = "ram_free" -> CmdFailed(s.h) \/ CmdFailed(s.b)
      [] p = "cpu_sysfs" ->
           \/ AnyFailed(s.cpus)
           \/ \E i \in 1..Len(s.freq) : ~s.freq[i].file.ok
           \/ s.topo.iter_err # ""
      [] p = "ram_sysfs" -> AnyFailed(s)
      [] p = "additional" -> s.vuln.iter_err # "" \/ ~s.scaling.ok

\* The provider got nothing at all from its source.
ProviderFailed(p, s) ==
    CASE p = "system" ->
           \A f \in {s.version, s.hostname, s.os_release, s.uptime, s.model} : ~f.ok
      [] p \in {"cpu_proc", "cpu_stat", "ram_proc", "vmstat"} -> ~s.ok
      [] p \in {"cpu_lscpu", "ram_dmidecode"} -> CmdFailed(s)
      [] p = "ram_free" -> CmdFailed(s.h) /\ CmdFailed(s.b)
      [] p = "cpu_sysfs" -> s.cpus = <<>>
      [] p = "ram_sysfs" -> s = <<>>
      [] p = "additional" -> ~s.vuln.exists /\ ~s.scaling.ok

EveryProviderFailed ==
    \A p \in Providers : p \in DOMAIN src /\ ProviderFailed(p, src[p])

ArtifactWriteFailed ==
    \E a \in Artifacts : artifacts[a].writes > 0 /\ artifacts[a].status # "written"

WriteBegun == \E a \in Artifacts : artifacts[a].writes > 0

\* The number of report lines with the given label
CountLabel(lines, label) ==
    Cardinality({i \in 1..Len(lines) : lines[i].label = label})

TypeOK ==
    /\ pc \in Providers \cup {"report", "save_json", "save_report", "github",
                              "done", "crashed", "fetch", "fetched"}
    /\ DOMAIN hardware_info \subseteq Providers
    /\ DOMAIN src \subseteq Providers
    /\ exit \in {-1, 0, 1}

(***************************************************************************)
(* C1.  In every run each of the eleven providers is invoked exactly once, *)
(* whatever the providers before it found: no provider is invoked twice,   *)
(* and once the run has left the provider calls (collect_all_info returned *)
(* or the run ended) every provider has been invoked.                      *)
(***************************************************************************)
C1_EveryProviderOnce ==
    /\ \A p \in Providers : calls[p] <= 1
    /\ pc \notin Providers => \A p \in Providers : calls[p] = 1

\* collect_all_info returned after a missing file, a timeout and a parse
\* error in earlier providers
C1_Witness ==
    /\ pc = "report"
    /\ \A p \in Providers : calls[p] = 1
    /\ ~src["cpu_proc"].ok
    /\ src["cpu_lscpu"].kind = "timeout"
    /\ HasError(hardware_info["cpu_stat"])
    /\ hardware_info["cpu_stat"][<<"error">>] = <<"IndexError">>
    /\ src["ram_dmidecode"].kind = "nonzero"

(***************************************************************************)
(* C2.  After collect_all_info returns, hardware_info has an entry for     *)
(* every one of its eleven keys, also when every provider failed.          *)
(***************************************************************************)
C2_EveryKeyPresent == CollectReturned => DOMAIN hardware_info = Providers

\* collect_all_info returned and every provider had failed
C2_Witness ==
    /\ pc = "report"
    /\ EveryProviderFailed
    /\ DOMAIN hardware_info = Providers
    /\ HasError(hardware_info["cpu_proc"])
    /\ DOMAIN hardware_info["cpu_lscpu"] = {}

(***************************************************************************)
(* C3.  Every provider returns instead of raising, and whenever one of its *)
(* file reads or command invocations failed its result has an error entry. *)
(***************************************************************************)
C3_FailureRecorded ==
    /\ exc \notin Providers
    /\ \A p \in DOMAIN hardware_info :
          ReadOrCommandFailed(p, src[p]) => HasError(hardware_info[p])

(***************************************************************************)
(* C4.  A provider whose command timed out has the error "timeout" in its  *)
(* result, and the remaining providers of the run are still invoked.       *)
(***************************************************************************)
TimedOut(p, s) ==
    CASE p \in {"cpu_lscpu", "ram_dmidecode"} -> s.kind = "timeout"
      [] p = "ram_free" -> s.h.kind = "timeout" \/ s.b.kind = "timeout"
      [] OTHER -> FALSE

C4_TimeoutRecorded ==
    /\ \A p \in DOMAIN hardware_info :
          TimedOut(p, src[p]) =>
              /\ HasError(hardware_info[p])
              /\ hardware_info[p][<<"error">>] = <<"timeout">>
    /\ pc \notin Providers => \A p \in Providers : calls[p] = 1

(***************************************************************************)
(* C5.  A run of main ends with a non-zero exit status only if every       *)
(* provider failed or one of the two artifacts could not be written; every *)
(* other run ends with exit status 0.                                      *)
(***************************************************************************)
C5_ExitStatus ==
    Terminated => (exit # 0 => EveryProviderFailed \/ ArtifactWriteFailed)

(***************************************************************************)
(* C6.  generate_comprehensive_report returns a report without raising for *)
(* every hardware_info collect_all_info can produce.                       *)
(***************************************************************************)
C6_ReportNeverRaises ==
    CollectReturned /\ DOMAIN hardware_info = Providers =>
        ~generate_comprehensive_report(hardware_info).raised

(***************************************************************************)
(* C7.  A field is in a provider's result only if the source supplied it:  *)
(* the fields get_cpu_info_proc takes from the first processor are in the  *)
(* result only if that processor has the line, and steal and guest of      *)
(* get_cpu_info_proc_stat only if the cpu line has the column.             *)
(***************************************************************************)
CpuinfoKeys ==
    (<<"model_name">> :> <<"model", "name">>) @@
    (<<"vendor_id">> :> <<"vendor_id">>) @@
    (<<"cpu_family">> :> <<"cpu", "family">>) @@
    (<<"model">> :> <<"model">>) @@
    (<<"stepping">> :> <<"stepping">>) @@
    (<<"microcode">> :> <<"microcode">>) @@
    (<<"cpu_mhz">> :> <<"cpu", "MHz">>) @@
    (<<"cache_size">> :> <<"cache", "size">>) @@
    (<<"physical_cores">> :> <<"cpu", "cores">>) @@
    (<<"siblings">> :> <<"siblings">>) @@
    (<<"flags">> :> <<"flags">>)

\* The cpu line of /proc/stat (<<>> when there is none)
RECURSIVE CpuLine(_)
CpuLine(lines) ==
    IF lines = <<>> THEN <<>>
    ELSE IF StartsWithCpu(Head(lines)) THEN Head(lines) ELSE CpuLine(Tail(lines))

C7_OnlySuppliedFields ==
    /\ "cpu_proc" \in DOMAIN hardware_info /\ src["cpu_proc"].ok =>
          \A k \in DOMAIN CpuinfoKeys :
              k \in DOMAIN hardware_info["cpu_proc"] =>
                  \E i \in 1..Len(src["cpu_proc"].content[1]) :
                      LET l == src["cpu_proc"].content[1][i] IN
                      HasColon(l) /\ ColonKey(l) = CpuinfoKeys[k]
    /\ "cpu_stat" \in DOMAIN hardware_info /\ src["cpu_stat"].ok =>
          /\ <<"steal">> \in DOMAIN hardware_info["cpu_stat"] =>
                Len(CpuLine(src["cpu_stat"].content)) > 8
          /\ <<"guest">> \in DOMAIN hardware_info["cpu_stat"] =>
                Len(CpuLine(src["cpu_stat"].content)) > 9

(***************************************************************************)
(* C8.  The report has a line for every curated summary field, with the    *)
(* collected value or an explicit 'unknown'; no such line is left out when *)
(* no provider supplied the field or every provider of its category failed.*)
(***************************************************************************)
CuratedLabels ==
    {<<"Hostname">>, <<"Kernel">>, <<"Processor">>, <<"Logical", "CPUs">>,
     <<"Physical", "Cores">>, <<"Frequency">>, <<"Architecture">>,
     <<"Total", "CPUs">>, <<"Total", "Memory">>, <<"Available", "Memory">>}

C8_UnknownMarked ==
    report.some => \A label \in CuratedLabels : CountLabel(report.val, label) >= 1

(***************************************************************************)
(* C9.  Each artifact is written at most once, no artifact write begins    *)
(* before collect_all_info has invoked every provider and returned, and no *)
(* provider is invoked once the first artifact write has begun.            *)
(***************************************************************************)
C9_PersistOnceAfterCollect ==
    /\ [](\A a \in Artifacts : artifacts[a].writes <= 1)
    /\ [](WriteBegun => CollectReturned /\ \A p \in Providers : calls[p] = 1)
    /\ [][WriteBegun => calls' = calls]_vars

\* the run is over and both artifacts have been written, once each
C9_Witness ==
    /\ pc = "done"
    /\ \A a \in Artifacts :
          artifacts[a].writes = 1 /\ artifacts[a].status = "written"
    /\ \A p \in Providers : calls[p] = 1

(***************************************************************************)
(* C10.  When ram_proc supplies MemTotal and MemAvailable and ram_free     *)
(* supplies detailed total_bytes and available_bytes, the report has       *)
(* exactly one 'Total Memory' line and exactly one 'Available Memory' line.*)
(***************************************************************************)
C10_OneLinePerFact ==
    /\ report.some
    /\ {<<"MemTotal">>, <<"MemAvailable">>} \subseteq DOMAIN hardware_info["ram_proc"]
    /\ <<"detailed">> \in DOMAIN hardware_info["ram_free"]
    => /\ CountLabel(report.val, <<"Total", "Memory">>) = 1
       /\ CountLabel(report.val, <<"Available", "Memory">>) = 1

(***************************************************************************)
(* C11.  A provider result is a failure or data, never both: a result with *)
(* an 'error' entry has no other entry, also when the source turns         *)
(* unparsable part-way through.                                            *)
(***************************************************************************)
C11_ErrorOrData ==
    \A p \in DOMAIN hardware_info :
        HasError(hardware_info[p]) => DOMAIN hardware_info[p] = {<<"error">>}

====
